---- MODULE Spec2Model ----
(***************************************************************************)
(* ForgeScan: the enforcement gate (EnforcementService and its HTTP        *)
(* handlers) and the evidence ledger (EvidenceService), over a PostgreSQL  *)
(* store reached through SQLAlchemy sessions.                              *)
(*                                                                         *)
(* A session sees the committed rows plus its own uncommitted writes       *)
(* (READ COMMITTED); closing a session without commit discards its writes. *)
(* The stored functions of schema forgescan_security are not part of the   *)
(* Python sources; they are modelled from the specification (Sql...).      *)
(***************************************************************************)
EXTENDS Integers, Sequences, FiniteSets, TLC

\* ------------------------------------------------------------------ bounds
MaxDecisions == 2      \* decision ids that can be allocated
MaxClock == 3          \* last instant of the clock
TicksPerMonth == 2     \* instants of the clock in one calendar month
MaxEvidence == 1       \* evidence ids that can be allocated
MaxKeys == 2           \* distinct keys a payload can hold
MaxRecords == 2        \* evidence records two writers can append
MaxScans == 2          \* scan ids that can be allocated
MaxFindings == 2       \* finding ids that can be allocated
MaxResult == 2         \* findings one scan can report
MaxLine == 11          \* largest line number of a finding
MaxSeverity == 10       \* largest technical severity
MaxExploitability == 10 \* largest exploitability
MaxWords == 2          \* words in a finding's title or description
MaxBatch == 2          \* findings handed to one evaluate_scan
MaxOpen == 2           \* open vulnerabilities of one tenant
MaxChecks == 2          \* checks of one scanner.scan
MaxCreated == 7         \* scan rows POST /scans has written

\* --------------------------------------------------------------- constants
HardFailThreshold == 100
SoftFailThreshold == 80
WarnThreshold == 60
NoId == 0
NoPriority == -1
NoTime == -1
NoUser == "none"
DefaultLimit == 100

Sessions == {"s1", "s2"}
Tenants == {"free_tenant", "startup_tenant"}
Users == {"alice", "bob"}

\* operational_tier of the tenant registry; unknown tenants count as STARTUP
TierOf(t) == IF t = "free_tenant" THEN "FREE" ELSE "STARTUP"

\* max open priority_rank values the store may report (0 = no open findings)
PrioritySamples == {0, 59, 60, 79, 80, 99, 100, 150}

\* one priority of each enforcement level
LevelSamples == {80, 100}

QuotaFailedReason == "quota check failed"
QuotaPassedReason == "Quota check passed."
QuotaNoRowReason == "Failed to check quota"
GateNoRowReason == "Failed to evaluate enforcement gate"

VARIABLES
    decisions,  \* committed rows of forgescan_security.enforcement_decisions
    ledger,     \* committed rows of forgescan_security.evidence_ledger
    sess,       \* per session: handler position, uncommitted writes, response
    next_id,    \* next decision id
    next_ev,    \* next evidence id
    clock       \* NOW(); every write reads a later instant

VARIABLES
    scans,        \* rows of table scans
    findings,     \* rows of table findings
    queue,        \* execute_scan tasks waiting for a worker
    workers,      \* per worker process: the task it runs and its position
    next_scan,    \* next scan id
    next_finding  \* next finding id

VARIABLES
    fp_call,    \* fingerprint_finding: two argument lists and the values returned
    prio_call,  \* calculate_priority: the arguments and the classes returned
    match_call, \* find_matching_rule: the finding and the rule returned
    eval_call,  \* evaluate_scan: two lists of findings and the plans returned
    plan_call   \* generate_remediation_plan: the tenant's rows and the plan returned

VARIABLES
    requests,   \* per client: its POST /scans request between the check and the insert
    run,       \* one run of execute_scan_task: its position, clients, result, scan row
    plugin     \* one scanner instance: self.findings, the lists made, its scan calls

gateVars == <<decisions, ledger, sess, next_id, next_ev, clock>>

scanVars == <<scans, findings, queue, workers, next_scan, next_finding>>

callVars == <<fp_call, prio_call, match_call, eval_call, plan_call>>

runVars == <<requests, run, plugin>>

vars == <<gateVars, scanVars, callVars, runVars>>

\* date_trunc('month', NOW())
MonthOf(now) == now \div TicksPerMonth

\* ------------------------------------------------- the stored functions
\* forgescan_security.enforce_release_gate: level of a max priority
SqlGateLevel(p) ==
    IF p >= HardFailThreshold THEN "HARD_FAIL"
    ELSE IF p >= SoftFailThreshold THEN "SOFT_FAIL"
    ELSE IF p >= WarnThreshold THEN "WARN"
    ELSE "INFO"

SqlGateDecision(p) ==
    IF p >= HardFailThreshold THEN "BLOCK"
    ELSE IF p >= SoftFailThreshold THEN "ALLOW_WITH_ACK"
    ELSE IF p >= WarnThreshold THEN "WARN"
    ELSE "ALLOW"

\* HARD_FAIL decisions of tenant t decided in month m among rows
HardFailsInMonth(rows, t, m) ==
    {d \in rows : d.tenant = t /\ d.level = "HARD_FAIL" /\ d.month = m}

\* forgescan_security.check_enforcement_quota
SqlCheckQuota(rows, t, m) ==
    IF TierOf(t) = "FREE" /\ HardFailsInMonth(rows, t, m) # {}
    THEN [allowed |-> FALSE, reason |-> QuotaFailedReason]
    ELSE [allowed |-> TRUE, reason |-> QuotaPassedReason]

SqlGateReason(rows, t, m, p) ==
    IF p >= HardFailThreshold /\ ~SqlCheckQuota(rows, t, m).allowed
    THEN QuotaFailedReason
    ELSE SqlGateLevel(p)

\* forgescan_security.enforce_release_gate(tenant, pipeline): one row
SqlEnforceReleaseGate(rows, t, m, p) ==
    [decision |-> SqlGateDecision(p), max_priority |-> p,
     level |-> SqlGateLevel(p), reason |-> SqlGateReason(rows, t, m, p)]

\* forgescan_security.log_enforcement_decision: the inserted row
SqlLogDecision(id, t, decision, p, level, reason, m, now) ==
    [id |-> id, tenant |-> t, decision |-> decision, max_priority |-> p,
     level |-> level, reason |-> reason, month |-> m, decided_at |-> now,
     acked_by |-> NoUser, acked_at |-> NoTime]

\* ------------------------------------------------------- sessions
EmptyRow == [decision |-> "", max_priority |-> NoPriority, level |-> "", reason |-> ""]

NoResp ==
    [kind |-> "none", decision |-> "", max_priority |-> NoPriority,
     level |-> "", reason |-> "", decision_id |-> NoId, allowed |-> FALSE]

\* store: how the store answered the request's query; prio: the tenant's max
\* open priority_rank at that query; exhausted: whether the tenant's quota was
\* used up at that query; qtime: NOW() at that query; target: the level of the
\* row an UPDATE matched; entity, timeline: the entity a history was asked for
\* and the records returned
IdleSession ==
    [pc |-> "idle", kind |-> "none", op |-> "none", tenant |-> "free_tenant",
     store |-> "", row |-> EmptyRow, prio |-> NoPriority, exhausted |-> FALSE,
     qtime |-> NoTime, target |-> "", ins |-> {}, upd |-> {}, evs |-> {},
     vid |-> NoId, expected |-> <<>>, verified |-> FALSE, entity |-> "",
     timeline |-> <<>>, resp |-> NoResp]

Ids(rows) == {d.id : d \in rows}

\* what a statement of session s reads: committed rows, its own inserts, and
\* its own updated versions in place of the rows they replace
Visible(s) ==
    {d \in decisions : d.id \notin Ids(sess[s].upd)} \cup sess[s].ins \cup sess[s].upd

\* a row updated by another open transaction is locked until that one ends
LockedByOther(s, id) == \E o \in Sessions \ {s} : id \in Ids(sess[o].upd)

\* the tenant's quota is used up: free tier with a HARD_FAIL decision this month
Exhausted(rows, t, m) ==
    /\ TierOf(t) = "FREE"
    /\ \E d \in rows : d.tenant = t /\ d.level = "HARD_FAIL" /\ d.month = m

\* ------------------------------------- EnforcementService.enforce_release_gate
\* the dict returned when the query yields no row
GateNoRowResult ==
    [NoResp EXCEPT !.kind = "result", !.decision = "ERROR",
                   !.level = "ERROR", !.reason = GateNoRowReason]

\* a slip in unpacking the row: level and decision change places
GateResultSwapped(row, id) ==
    [NoResp EXCEPT !.kind = "result", !.decision = row.level,
                   !.max_priority = row.max_priority, !.level = row.decision,
                   !.reason = row.reason, !.decision_id = id]

\* a slip that reports the level's text where the row's reason belongs
GateResultNoReason(row, id) ==
    [NoResp EXCEPT !.kind = "result", !.decision = row.decision,
                   !.max_priority = row.max_priority, !.level = row.level,
                   !.reason = row.level, !.decision_id = id]

\* the dict returned after the decision was logged
GateResult(row, id) ==
    [NoResp EXCEPT !.kind = "result", !.decision = row.decision,
                   !.max_priority = row.max_priority, !.level = row.level,
                   !.reason = row.reason, !.decision_id = id]

\* an exception leaving the service; the handler turns it into HTTP 500
Raised == [NoResp EXCEPT !.kind = "error"]

\* GET /api/v1/enforce/gate: get_db opens a session for the request
ApiGate(s, t) ==
    /\ sess[s].pc = "idle"
    /\ sess' = [sess EXCEPT ![s] = [IdleSession EXCEPT !.pc = "gate_query",
                                       !.kind = "api", !.op = "gate", !.tenant = t]]
    /\ UNCHANGED <<decisions, ledger, next_id, next_ev, clock>>
    /\ UNCHANGED <<scanVars, callVars, runVars>>

\* first statement of enforce_release_gate: SELECT ... FROM enforce_release_gate(...)
GateQuery(s, samples) ==
    /\ sess[s].pc = "gate_query"
    /\ \E outcome \in {"row", "norow", "raise"} :
         \/ /\ outcome = "raise"
            /\ sess' = [sess EXCEPT ![s].pc = "done", ![s].store = outcome,
                                    ![s].resp = Raised]
         \/ /\ outcome = "norow"
            /\ sess' = [sess EXCEPT ![s].pc = "done", ![s].store = outcome,
                                    ![s].resp = GateNoRowResult]
         \/ /\ outcome = "row"
            /\ \E p \in samples :
                 LET t == sess[s].tenant
                     m == MonthOf(clock)
                 IN sess' = [sess EXCEPT
                        ![s].pc = "gate_log", ![s].store = outcome,
                        ![s].row = SqlEnforceReleaseGate(Visible(s), t, m, p),
                        ![s].prio = p, ![s].qtime = clock,
                        ![s].exhausted = Exhausted(Visible(s), t, m)]
    /\ UNCHANGED <<decisions, ledger, next_id, next_ev, clock>>
    /\ UNCHANGED <<scanVars, callVars, runVars>>

\* second statement: log_enforcement_decision, then the result dict
GateLog(s) ==
    /\ sess[s].pc = "gate_log"
    /\ \E outcome \in {"ok", "raise"} :
         \/ /\ outcome = "raise"
            /\ sess' = [sess EXCEPT ![s].pc = "done", ![s].resp = Raised]
            /\ UNCHANGED <<next_id, clock>>
         \/ /\ outcome = "ok"
            /\ next_id <= MaxDecisions
            /\ clock < MaxClock
            /\ LET row == sess[s].row
                   d == SqlLogDecision(next_id, sess[s].tenant, row.decision,
                                       row.max_priority, row.level, row.reason,
                                       MonthOf(clock), clock)
               IN sess' = [sess EXCEPT ![s].pc = "done",
                                       ![s].ins = @ \cup {d},
                                       ![s].resp = GateResult(row, next_id)]
            /\ next_id' = next_id + 1
            /\ clock' = clock + 1
    /\ UNCHANGED <<decisions, ledger, next_ev>>
    /\ UNCHANGED <<scanVars, callVars, runVars>>

\* get_db's finally: session.close() with no commit discards the writes
ApiClose(s) ==
    /\ sess[s].pc = "done"
    /\ sess' = [sess EXCEPT ![s] = IdleSession]
    /\ UNCHANGED <<decisions, ledger, next_id, next_ev, clock>>
    /\ UNCHANGED <<scanVars, callVars, runVars>>

\* ---------------------------------------- direct callers of the service
\* the arguments the tests pass to log_enforcement_decision
DirectSamples == {85, 150}

\* log_enforcement_decision called on a session the caller owns
SvcLog(s, t, p) ==
    /\ sess[s].pc \in {"idle", "open"}
    /\ next_id <= MaxDecisions
    /\ clock < MaxClock
    /\ LET d == SqlLogDecision(next_id, t, SqlGateDecision(p), p, SqlGateLevel(p),
                               "Test", MonthOf(clock), clock)
       IN sess' = [sess EXCEPT ![s].pc = "open", ![s].kind = "svc", ![s].op = "log",
                               ![s].tenant = t, ![s].ins = @ \cup {d}]
    /\ next_id' = next_id + 1
    /\ clock' = clock + 1
    /\ UNCHANGED <<decisions, ledger, next_ev>>
    /\ UNCHANGED <<scanVars, callVars, runVars>>

\* session.commit(): the session's writes become the committed rows
Committed(s) ==
    {d \in decisions : d.id \notin Ids(sess[s].upd)} \cup sess[s].ins \cup sess[s].upd

\* a slip that commits evidence as an upsert keyed by related_entity
SvcCommitUpsert(s) ==
    /\ sess[s].pc \in {"open", "verified"}
    /\ decisions' = Committed(s)
    /\ ledger' = {e \in ledger : \A f \in sess[s].evs :
                       f.related_entity # e.related_entity} \cup sess[s].evs
    /\ sess' = [sess EXCEPT ![s] = IdleSession]
    /\ UNCHANGED <<next_id, next_ev, clock>>
    /\ UNCHANGED <<scanVars, callVars, runVars>>

\* the caller commits and ends its session
SvcCommit(s) ==
    /\ sess[s].pc \in {"open", "verified"}
    /\ decisions' = Committed(s)
    /\ ledger' = ledger \cup sess[s].evs
    /\ sess' = [sess EXCEPT ![s] = IdleSession]
    /\ UNCHANGED <<next_id, next_ev, clock>>
    /\ UNCHANGED <<scanVars, callVars, runVars>>

\* the caller's session ends with a rollback
SvcClose(s) ==
    /\ sess[s].pc \in {"open", "verified"}
    /\ sess' = [sess EXCEPT ![s] = IdleSession]
    /\ UNCHANGED <<decisions, ledger, next_id, next_ev, clock>>
    /\ UNCHANGED <<scanVars, callVars, runVars>>

\* ------------------------- EnforcementService.acknowledge_enforcement_decision
\* UPDATE ... SET acked_by, acked_at = NOW() WHERE decision_id = :id RETURNING TRUE
AckUpdate(rows, id, u, now) ==
    {[d EXCEPT !.acked_by = u, !.acked_at = now] : d \in {x \in rows : x.id = id}}

\* the handler's reply after commit
AckOk(id) ==
    [NoResp EXCEPT !.kind = "result", !.decision_id = id]

\* POST /api/v1/enforce/acknowledge: the UPDATE, waiting for a locked row
ApiAck(s, id, u) ==
    /\ sess[s].pc = "idle"
    /\ ~LockedByOther(s, id)
    /\ clock < MaxClock
    /\ \E outcome \in {"ok", "raise"} :
         \/ /\ outcome = "raise"
            /\ sess' = [sess EXCEPT ![s].pc = "ack_fail", ![s].kind = "api",
                                    ![s].op = "ack", ![s].store = outcome]
            /\ UNCHANGED clock
         \/ /\ outcome = "ok"
            /\ LET hit == AckUpdate(Visible(s), id, u, clock)
               IN sess' = [sess EXCEPT
                      ![s].pc = IF hit # {} THEN "ack_commit" ELSE "ack_fail",
                      ![s].kind = "api", ![s].op = "ack",
                      ![s].store = IF hit # {} THEN "row" ELSE "norow",
                      ![s].target = IF hit # {} THEN (CHOOSE d \in hit : TRUE).level ELSE "",
                      ![s].upd = hit,
                      ![s].resp = [NoResp EXCEPT !.decision_id = id]]
            /\ clock' = clock + 1
    /\ UNCHANGED <<decisions, ledger, next_id, next_ev>>
    /\ UNCHANGED <<scanVars, callVars, runVars>>

\* success: db.commit() and the 200 reply
ApiAckCommit(s) ==
    /\ sess[s].pc = "ack_commit"
    /\ decisions' = Committed(s)
    /\ ledger' = ledger \cup sess[s].evs
    /\ sess' = [sess EXCEPT ![s].pc = "done", ![s].upd = {}, ![s].evs = {},
                            ![s].resp = AckOk(sess[s].resp.decision_id)]
    /\ UNCHANGED <<next_id, next_ev, clock>>
    /\ UNCHANGED <<scanVars, callVars, runVars>>

\* no row or an exception: HTTPException(404) is caught, db.rollback(), HTTP 500
ApiAckRollback(s) ==
    /\ sess[s].pc = "ack_fail"
    /\ sess' = [sess EXCEPT ![s].pc = "done", ![s].upd = {}, ![s].evs = {},
                            ![s].resp = Raised]
    /\ UNCHANGED <<decisions, ledger, next_id, next_ev, clock>>
    /\ UNCHANGED <<scanVars, callVars, runVars>>

\* ------------------------------- EnforcementService.check_enforcement_quota
\* the dict returned when the query yields no row
QuotaNoRowResult ==
    [NoResp EXCEPT !.kind = "result", !.allowed = FALSE,
                   !.reason = QuotaNoRowReason]

\* a slip that negates the store's answer
QuotaResultNegated(row) ==
    [NoResp EXCEPT !.kind = "result", !.allowed = ~row.allowed,
                   !.reason = row.reason]

\* the dict returned for the store's row
QuotaResult(row) ==
    [NoResp EXCEPT !.kind = "result", !.allowed = row.allowed,
                   !.reason = row.reason]

\* GET /api/v1/enforce/quota
ApiQuota(s, t) ==
    /\ sess[s].pc = "idle"
    /\ \E outcome \in {"row", "norow", "raise"} :
         sess' = [sess EXCEPT
            ![s].pc = "done", ![s].kind = "api", ![s].op = "quota", ![s].tenant = t,
            ![s].store = outcome,
            ![s].exhausted = Exhausted(Visible(s), t, MonthOf(clock)),
            ![s].resp = IF outcome = "raise" THEN Raised
                        ELSE IF outcome = "norow" THEN QuotaNoRowResult
                        ELSE QuotaResult(SqlCheckQuota(Visible(s), t, MonthOf(clock)))]
    /\ UNCHANGED <<decisions, ledger, next_id, next_ev, clock>>
    /\ UNCHANGED <<scanVars, callVars, runVars>>

\* ------------------------------ EnforcementService.get_enforcement_history
RECURSIVE NewestFirst(_)
\* ORDER BY decided_at DESC
NewestFirst(rows) ==
    IF rows = {} THEN <<>>
    ELSE LET d == CHOOSE x \in rows : \A y \in rows : y.decided_at <= x.decided_at
         IN <<d>> \o NewestFirst(rows \ {d})

\* LIMIT :limit
Limit(seq, n) == SubSeq(seq, 1, IF Len(seq) < n THEN Len(seq) ELSE n)

\* the tenant's decisions, newest first, at most limit of them
GetEnforcementHistory(rows, t, limit) ==
    Limit(NewestFirst({d \in rows : d.tenant = t}), limit)

\* ------------------------------------------------------- EvidenceService
\* A payload is a Python dict: its items in insertion order, keys distinct.
\* Keys are numbered in their string order. A JSON text is the sequence of
\* its items as written.
Keys == 1..MaxKeys
Values == {0, 1}
Items == Keys \X Values
Entities == {"e1", "e2"}
EvidenceTypes == {"SCAN", "ENFORCEMENT", "REMEDIATION", "CI_DECISION"}

KeysOf(payload) == {payload[i][1] : i \in DOMAIN payload}

Payloads ==
    {p \in UNION {[1..n -> Items] : n \in 0..MaxKeys} :
        \A i, j \in DOMAIN p : i # j => p[i][1] # p[j][1]}

\* the object a dict or a JSON text denotes
ToObject(payload) ==
    [k \in KeysOf(payload) |->
        payload[CHOOSE i \in DOMAIN payload : payload[i][1] = k][2]]

RECURSIVE SortedItems(_, _)
\* the items of obj over the keys ks, in ascending key order
SortedItems(obj, ks) ==
    IF ks = {} THEN <<>>
    ELSE LET k == CHOOSE x \in ks : \A y \in ks : x <= y
         IN <<<<k, obj[k]>>>> \o SortedItems(obj, ks \ {k})

\* json.dumps(payload, sort_keys=...)
JsonDumps(payload, sort_keys) ==
    IF sort_keys THEN SortedItems(ToObject(payload), KeysOf(payload)) ELSE payload

\* hashlib.sha256(text).hexdigest(): distinct texts have distinct digests
Sha256(text) == <<"sha256", text>>

\* a slip that leaves out sort_keys
ComputeHashUnsorted(payload) == Sha256(JsonDumps(payload, FALSE))

\* EvidenceService.compute_hash
ComputeHash(payload) == Sha256(JsonDumps(payload, TRUE))

\* forgescan_security.log_evidence(tenant, type, entity, text::JSONB): the
\* appended row, its hash taken over the key-sorted JSON of the payload
SqlLogEvidence(id, t, type, entity, text, now) ==
    LET obj == ToObject(text)
    IN [id |-> id, tenant |-> t, evidence_type |-> type, related_entity |-> entity,
        payload |-> obj, hash |-> Sha256(SortedItems(obj, DOMAIN obj)),
        created_at |-> now]

\* what a statement of session s reads of the ledger
VisibleLedger(s) == ledger \cup sess[s].evs

\* EvidenceService.log_evidence on a session the caller owns
LogEvidence(s, t, type, entity, payload) ==
    /\ sess[s].pc \in {"idle", "open"}
    /\ \E outcome \in {"ok", "raise"} :
         \/ /\ outcome = "raise"
            /\ sess' = [sess EXCEPT ![s].pc = "open", ![s].kind = "svc",
                                    ![s].op = "evidence", ![s].store = outcome]
            /\ UNCHANGED <<next_ev, clock>>
         \/ /\ outcome = "ok"
            /\ clock < MaxClock
            /\ LET e == SqlLogEvidence(next_ev, t, type, entity,
                                       JsonDumps(payload, FALSE), clock)
               IN sess' = [sess EXCEPT ![s].pc = "open", ![s].kind = "svc",
                              ![s].op = "evidence", ![s].store = outcome,
                              ![s].evs = @ \cup {e}]
            /\ next_ev' = next_ev + 1
            /\ clock' = clock + 1
    /\ UNCHANGED <<decisions, ledger, next_id>>
    /\ UNCHANGED <<scanVars, callVars, runVars>>

\* EvidenceService.verify_evidence_integrity
VerifyEvidenceIntegrity(rows, id, expected) ==
    IF ~\E e \in rows : e.id = id THEN FALSE
    ELSE (CHOOSE e \in rows : e.id = id).hash = ComputeHash(expected)

\* verify_evidence_integrity on a session the caller owns, as the caller's
\* last call before it ends the session
VerifyEvidence(s, id, expected) ==
    /\ sess[s].pc \in {"idle", "open"}
    /\ sess' = [sess EXCEPT
          ![s].pc = "verified", ![s].kind = "svc", ![s].op = "verify",
          ![s].store = IF \E e \in VisibleLedger(s) : e.id = id THEN "row" ELSE "norow",
          ![s].vid = id, ![s].expected = expected,
          ![s].verified = VerifyEvidenceIntegrity(VisibleLedger(s), id, expected)]
    /\ UNCHANGED <<decisions, ledger, next_id, next_ev, clock>>
    /\ UNCHANGED <<scanVars, callVars, runVars>>

RECURSIVE EvidenceNewestFirst(_)
\* ORDER BY created_at DESC
EvidenceNewestFirst(rows) ==
    IF rows = {} THEN <<>>
    ELSE LET e == CHOOSE x \in rows : \A y \in rows : y.created_at <= x.created_at
         IN <<e>> \o EvidenceNewestFirst(rows \ {e})

\* the query of get_evidence_by_entity
SelectByEntity(rows, t, entity) ==
    EvidenceNewestFirst({e \in rows : e.tenant = t /\ e.related_entity = entity})

\* EvidenceService.get_evidence_by_entity(tenant_id, related_entity) on a
\* session the caller owns
GetEvidenceByEntity(s, t, entity) ==
    /\ sess[s].pc \in {"idle", "open"}
    /\ sess' = [sess EXCEPT
          ![s].pc = "open", ![s].kind = "svc", ![s].op = "timeline",
          ![s].tenant = t, ![s].entity = entity,
          ![s].timeline = SelectByEntity(VisibleLedger(s), t, entity)]
    /\ UNCHANGED <<decisions, ledger, next_id, next_ev, clock>>
    /\ UNCHANGED <<scanVars, callVars, runVars>>

\* GET /api/v1/evidence/entity/{entity_id}: the handler passes entity_id=, a
\* keyword get_evidence_by_entity does not take; the TypeError becomes HTTP 500
ApiEntityHistory(s, t, entity) ==
    /\ sess[s].pc = "idle"
    /\ sess' = [sess EXCEPT ![s] = [IdleSession EXCEPT
          !.pc = "done", !.kind = "api", !.op = "history", !.tenant = t,
          !.entity = entity, !.resp = Raised]]
    /\ UNCHANGED <<decisions, ledger, next_id, next_ev, clock>>
    /\ UNCHANGED <<scanVars, callVars, runVars>>

\* ------------------------------------------------- scans and findings
Workers == {"w1", "w2"}

\* ScannerType
ScannerTypes == {"web", "api", "sca"}

\* tenant.plan
PlanOf(t) == IF t = "free_tenant" THEN "free" ELSE "startup"

\* PLAN_LIMITS[plan]["scanners"]
PlanScanners(plan) == IF plan = "free" THEN {"web"} ELSE {"web", "api", "sca"}

FreeConcurrentScans == 1
StartupConcurrentScans == 3
FreeScansPerMonth == 5
StartupScansPerMonth == 200

\* PLAN_LIMITS[plan]["concurrent_scans"]
ConcurrentScans(plan) ==
    IF plan = "free" THEN FreeConcurrentScans ELSE StartupConcurrentScans

\* PLAN_LIMITS[plan]["max_scans_per_month"]
MaxScansPerMonth(plan) ==
    IF plan = "free" THEN FreeScansPerMonth ELSE StartupScansPerMonth

\* a target as urlparse reads it; the empty string has neither part
EmptyTarget == [scheme |-> "", netloc |-> ""]

Targets ==
    {[scheme |-> "https", netloc |-> "app"], [scheme |-> "ftp", netloc |-> "app"],
     [scheme |-> "https", netloc |-> ""], EmptyTarget}

\* supported_protocols of WebScanner and APIScanner
SupportedProtocols == {"http", "https"}

\* WebScanner.validate_target, APIScanner.validate_target
ValidateTarget(target) ==
    target.scheme \in SupportedProtocols /\ target.netloc # ""

\* the names PluginManager.initialize registers
Plugins == {"web_scanner", "api_scanner"}

NoScanner == "none"

\* f"{scanner_type}_scanner"
ScannerName(scanner_type) == scanner_type \o "_scanner"

\* how PluginManager.get_scanner treats the target: "unregistered", or the
\* validate_target call it makes ("true", "false"), or "skipped" when the
\* target is falsy and the call is not made
Validation(scanner_type, target) ==
    IF ScannerName(scanner_type) \notin Plugins THEN "unregistered"
    ELSE IF target = EmptyTarget THEN "skipped"
    ELSE IF ValidateTarget(target) THEN "true" ELSE "false"

\* PluginManager.get_scanner
GetScanner(scanner_type, target) ==
    IF ScannerName(scanner_type) \in Plugins
    THEN IF target # EmptyTarget /\ ~ValidateTarget(target)
         THEN NoScanner
         ELSE ScannerName(scanner_type)
    ELSE NoScanner

\* a finding dict of a scan result: its fingerprint, or NoFingerprint when the
\* dict lacks the columns a Finding row needs
Fingerprints == {"fp1"}
NoFingerprint == "none"

\* ScanResult.findings
ResultSamples ==
    UNION {[1..n -> Fingerprints \cup {NoFingerprint}] : n \in 0..MaxResult}

IdleWorker ==
    [pc |-> "idle", scan_id |-> NoId, tenant |-> "", scanner_type |-> "",
     target |-> EmptyTarget, validated |-> "none", invoked |-> FALSE,
     status |-> "", todo |-> <<>>, error |-> ""]

NoSuitableScanner == "No suitable scanner"
ScanNotFound == "Scan not found"
ScanRaised == "scan raised"
StoreRaised == "store raised"

\* scan_repo.update(scan_id, {"status": ...}) and commit
UpdateStatus(rows, id, status) ==
    {IF r.id = id THEN [r EXCEPT !.status = status] ELSE r : r \in rows}

\* tenant_repo.count_scans_this_month
CountScansThisMonth(t) ==
    Cardinality({r \in scans : r.tenant = t /\ r.month = MonthOf(clock)})

\* POST /scans: plan checks, the scan row, the queued task
CreateScan(t, scanner_type, target) ==
    /\ next_scan <= MaxScans
    /\ CountScansThisMonth(t) < MaxScansPerMonth(PlanOf(t))
    /\ scanner_type \in PlanScanners(PlanOf(t))
    /\ scans' = scans \cup {[id |-> next_scan, tenant |-> t,
                              scanner_type |-> scanner_type, target |-> target,
                              status |-> "pending", month |-> MonthOf(clock)]}
    /\ queue' = queue \cup {[scan_id |-> next_scan, tenant |-> t,
                              scanner_type |-> scanner_type, target |-> target]}
    /\ next_scan' = next_scan + 1
    /\ UNCHANGED <<findings, workers, next_finding>>
    /\ UNCHANGED <<gateVars, callVars, runVars>>

\* execute_scan_task starts: the scan is looked up and set to running
WorkerStart(w) ==
    /\ workers[w].pc = "idle"
    /\ \E task \in queue :
         /\ queue' = queue \ {task}
         /\ IF \E r \in scans : r.id = task.scan_id
            THEN /\ scans' = UpdateStatus(scans, task.scan_id, "running")
                 /\ workers' = [workers EXCEPT ![w] = [IdleWorker EXCEPT
                        !.pc = "resolve", !.scan_id = task.scan_id,
                        !.tenant = task.tenant, !.scanner_type = task.scanner_type,
                        !.target = task.target]]
            ELSE /\ scans' = scans
                 /\ workers' = [workers EXCEPT ![w] = [IdleWorker EXCEPT
                        !.pc = "done", !.scan_id = task.scan_id,
                        !.tenant = task.tenant, !.scanner_type = task.scanner_type,
                        !.target = task.target, !.error = ScanNotFound]]
    /\ UNCHANGED <<findings, next_scan, next_finding>>
    /\ UNCHANGED <<gateVars, callVars, runVars>>

\* plugin_manager.get_scanner; no scanner raises and the scan is set to failed
WorkerResolve(w) ==
    /\ workers[w].pc = "resolve"
    /\ LET me == workers[w]
           v == Validation(me.scanner_type, me.target)
       IN IF GetScanner(me.scanner_type, me.target) = NoScanner
          THEN /\ scans' = UpdateStatus(scans, me.scan_id, "failed")
               /\ workers' = [workers EXCEPT ![w].pc = "done", ![w].validated = v,
                                              ![w].error = NoSuitableScanner]
          ELSE /\ scans' = scans
               /\ workers' = [workers EXCEPT ![w].pc = "scan", ![w].validated = v]
    /\ UNCHANGED <<findings, queue, next_scan, next_finding>>
    /\ UNCHANGED <<gateVars, callVars, runVars>>

\* scanner.scan(target, ...): a result, or an exception that fails the scan
WorkerScan(w) ==
    /\ workers[w].pc = "scan"
    /\ \/ /\ scans' = UpdateStatus(scans, workers[w].scan_id, "failed")
          /\ workers' = [workers EXCEPT ![w].pc = "done", ![w].invoked = TRUE,
                                         ![w].error = ScanRaised]
       \/ /\ \E status \in {"completed", "failed"}, fs \in ResultSamples :
                workers' = [workers EXCEPT ![w].pc = "store", ![w].invoked = TRUE,
                                           ![w].status = status, ![w].todo = fs]
          /\ scans' = scans
    /\ UNCHANGED <<findings, queue, next_scan, next_finding>>
    /\ UNCHANGED <<gateVars, callVars, runVars>>

\* one turn of the loop over result.findings: finding_repo.create inserts the
\* row and commits; a dict that lacks required columns raises
WorkerStoreFinding(w) ==
    /\ workers[w].pc = "store"
    /\ workers[w].todo # <<>>
    /\ LET me == workers[w]
           fp == Head(me.todo)
       IN IF fp = NoFingerprint
          THEN /\ scans' = UpdateStatus(scans, me.scan_id, "failed")
               /\ workers' = [workers EXCEPT ![w].pc = "done", ![w].error = StoreRaised]
               /\ UNCHANGED <<findings, next_finding>>
          ELSE /\ next_finding <= MaxFindings
               /\ findings' = findings \cup {[id |-> next_finding, scan_id |-> me.scan_id,
                                               tenant |-> me.tenant, fingerprint |-> fp,
                                               status |-> "open"]}
               /\ next_finding' = next_finding + 1
               /\ workers' = [workers EXCEPT ![w].todo = Tail(me.todo)]
               /\ scans' = scans
    /\ UNCHANGED <<queue, next_scan>>
    /\ UNCHANGED <<gateVars, callVars, runVars>>

\* after the loop: the scan takes the result's status
WorkerFinish(w) ==
    /\ workers[w].pc = "store"
    /\ workers[w].todo = <<>>
    /\ scans' = UpdateStatus(scans, workers[w].scan_id,
                             IF workers[w].status = "completed" THEN "completed" ELSE "failed")
    /\ workers' = [workers EXCEPT ![w].pc = "done"]
    /\ UNCHANGED <<findings, queue, next_scan, next_finding>>
    /\ UNCHANGED <<gateVars, callVars, runVars>>

\* the task returns or raises; the worker is free again
WorkerExit(w) ==
    /\ workers[w].pc = "done"
    /\ workers' = [workers EXCEPT ![w] = IdleWorker]
    /\ UNCHANGED <<scans, findings, queue, next_scan, next_finding>>
    /\ UNCHANGED <<gateVars, callVars, runVars>>

\* DELETE /scans/{scan_id}: DELETE FROM scans WHERE id = :id. The findings
\* table of the migration has ON DELETE CASCADE on scan_id; the table created
\* from the model has a plain foreign key, which refuses the delete while the
\* scan has findings.
DeleteScan(t, id) ==
    /\ \E r \in scans : r.id = id /\ r.tenant = t
    /\ \E schema \in {"migration", "model"} :
         IF schema = "model" /\ \E f \in findings : f.scan_id = id
         THEN UNCHANGED <<scans, findings>>
         ELSE /\ scans' = {r \in scans : r.id # id}
              /\ findings' = {f \in findings : f.scan_id # id}
    /\ UNCHANGED <<queue, workers, next_scan, next_finding>>
    /\ UNCHANGED <<gateVars, callVars, runVars>>

\* ---------------------------------------------------------------------
\* app/api/dependencies.py, app/api/v1/scan.py: POST /scans as the two awaits
\* it is made of

Clients == {"c1", "c2"}

IdleRequest == [pc |-> "idle", tenant |-> "", response |-> 0]

QuotaExceeded == 429
ScannerForbidden == 403
Created == 201

\* check_plan_limits: the dependency counts the month's scans of the tenant
\* and rejects the request at the limit
CheckPlanLimits(c, t) ==
    /\ requests[c].pc = "idle"
    /\ LET scan_count == CountScansThisMonth(t)
           max_scans == MaxScansPerMonth(PlanOf(t))
       IN requests' = [requests EXCEPT ![c] =
              IF scan_count >= max_scans
              THEN [pc |-> "idle", tenant |-> "", response |-> QuotaExceeded]
              ELSE [pc |-> "checked", tenant |-> t, response |-> 0]]
    /\ UNCHANGED <<gateVars, scanVars, callVars, run, plugin>>

\* create_scan: the body of the handler, run once the dependency has returned
CreateScanRow(c, scanner_type, target) ==
    /\ requests[c].pc = "checked"
    /\ next_scan <= MaxCreated
    /\ LET t == requests[c].tenant
       IN IF scanner_type \notin PlanScanners(PlanOf(t))
          THEN /\ requests' = [requests EXCEPT ![c] =
                       [pc |-> "idle", tenant |-> "", response |-> ScannerForbidden]]
               /\ UNCHANGED <<scans, queue, next_scan>>
          ELSE /\ scans' = scans \cup {[id |-> next_scan, tenant |-> t,
                                        scanner_type |-> scanner_type, target |-> target,
                                        status |-> "pending", month |-> MonthOf(clock)]}
               /\ queue' = queue \cup {[scan_id |-> next_scan, tenant |-> t,
                                        scanner_type |-> scanner_type, target |-> target]}
               /\ next_scan' = next_scan + 1
               /\ requests' = [requests EXCEPT ![c] =
                       [pc |-> "idle", tenant |-> "", response |-> Created]]
    /\ UNCHANGED <<findings, workers, next_finding>>
    /\ UNCHANGED <<gateVars, callVars, run, plugin>>

\* ---------------------------------------------------------------------
\* app/core/hashing.py: the fingerprint of a finding

\* Python's None
None == <<>>

\* a value that is present
Some(v) == <<v>>

FpScanners == {"bandit", "semgrep"}
RuleIds == {"B101", "B102"}
Files == {None, Some("app.py"), Some("None")}
Lines == {None} \cup {Some(n) : n \in 0..MaxLine}
Titles == {"eval used", "exec used"}

Digits == <<"0", "1", "2", "3", "4", "5", "6", "7", "8", "9">>

RECURSIVE IntStr(_)
\* str(n) of a non-negative int
IntStr(n) == IF n < 10 THEN Digits[n + 1]
             ELSE IntStr(n \div 10) \o Digits[(n % 10) + 1]

\* {file} in an f-string: str(None) is "None", a str is itself
FormatFile(file) == IF file = None THEN "None" ELSE file[1]

\* {line} in an f-string: str(None) is "None", an int its decimal digits
FormatLine(line) == IF line = None THEN "None" ELSE IntStr(line[1])

\* fingerprint_finding
FingerprintFinding(scanner, rule_id, file, line, title) ==
    Sha256(scanner \o ":" \o rule_id \o ":" \o FormatFile(file) \o ":"
           \o FormatLine(line) \o ":" \o title)

FpFields == {"scanner", "rule_id", "file", "line", "title"}

FpInputs == [scanner : FpScanners, rule_id : RuleIds, file : Files,
             line : Lines, title : Titles]

\* argument lists whose scanner or rule_id holds the separator ":"
SeparatorInputs == [scanner : {"semgrep", "semgrep:python"},
                    rule_id : {"eval", "python:eval"},
                    file : Files, line : {None, Some(1)}, title : {"eval used"}]

\* the fields in which two argument lists differ
Changed(a, b) == {k \in FpFields : a[k] # b[k]}

NotCalled == <<>>

NoCall == [args |-> <<>>, out |-> <<>>]

\* one call of fingerprint_finding, on the i-th argument list
FingerprintCall(i) ==
    /\ i \in DOMAIN fp_call.args
    /\ fp_call.out[i] = NotCalled
    /\ LET a == fp_call.args[i]
       IN fp_call' = [fp_call EXCEPT !.out[i] =
                    FingerprintFinding(a.scanner, a.rule_id, a.file, a.line, a.title)]
    /\ UNCHANGED <<runVars, gateVars, scanVars, prio_call, match_call, eval_call, plan_call>>

\* ---------------------------------------------------------------------
\* app/remediation: the priority class of a finding

\* a slip that numbers the members downwards
BusinessImpactScoreInverted == [LOW |-> 8, MEDIUM |-> 4, HIGH |-> 2, CRITICAL |-> 1]

\* enum BusinessImpactScore
BusinessImpactScore == [LOW |-> 1, MEDIUM |-> 2, HIGH |-> 4, CRITICAL |-> 8]

\* a slip that compares with > where the code has >=
CalculatePriorityStrict(technical_severity, business_impact, exploitability) ==
    LET score == technical_severity * exploitability
                    * BusinessImpactScore[business_impact]
    IN IF score > 24 THEN "P0"
       ELSE IF score > 16 THEN "P1"
       ELSE IF score > 8 THEN "P2"
       ELSE IF score > 4 THEN "P3"
       ELSE "P4"

\* calculate_priority
CalculatePriority(technical_severity, business_impact, exploitability) ==
    LET score == technical_severity * exploitability
                    * BusinessImpactScore[business_impact]
    IN IF score >= 24 THEN "P0"
       ELSE IF score >= 16 THEN "P1"
       ELSE IF score >= 8 THEN "P2"
       ELSE IF score >= 4 THEN "P3"
       ELSE "P4"

\* impact strings a rule can carry
ImpactStrings == {"LOW", "MEDIUM", "HIGH", "CRITICAL", "high", "Critical", "unknown"}

\* str.upper() on the strings above
Upper(str) == CASE str = "high" -> "HIGH"
                [] str = "Critical" -> "CRITICAL"
                [] str = "unknown" -> "UNKNOWN"
                [] OTHER -> str

\* map_business_impact: the member named by the upper-cased string, LOW for
\* a string that names none
MapBusinessImpact(impact_str) ==
    IF Upper(impact_str) \in DOMAIN BusinessImpactScore
    THEN Upper(impact_str) ELSE "LOW"

\* evaluate_scan's priority_order
PriorityOrder == [P0 |-> 0, P1 |-> 1, P2 |-> 2, P3 |-> 3, P4 |-> 4]

PriorityInputs == [technical_severity : 1..MaxSeverity,
                   exploitability : 1..MaxExploitability,
                   impact_str : ImpactStrings]

NoClass == [business_impact |-> "", priority |-> ""]

\* one evaluation: the rule's impact string mapped to the enum, then
\* calculate_priority on the i-th argument list
PriorityCall(i) ==
    /\ i \in DOMAIN prio_call.args
    /\ prio_call.out[i] = NoClass
    /\ LET a == prio_call.args[i]
           business_impact == MapBusinessImpact(a.impact_str)
       IN prio_call' = [prio_call EXCEPT !.out[i] =
             [business_impact |-> business_impact,
              priority |-> CalculatePriority(a.technical_severity, business_impact,
                                             a.exploitability)]]
    /\ UNCHANGED <<runVars, gateVars, scanVars, fp_call, match_call, eval_call, plan_call>>

\* ---------------------------------------------------------------------
\* app/remediation/evaluator.py: matching a finding against RULES

\* words of a finding's text, in the cases a scanner writes them
Words == {"rate", "limit", "TLS", "tls", "Debug", "dev", "endpoint", "dependency"}

\* str.lower() on the words above
Lower(word) == CASE word = "TLS" -> "tls"
                 [] word = "Debug" -> "debug"
                 [] word = "devDependencies" -> "devdependencies"
                 [] OTHER -> word

\* str.lower() on a text
LowerText(text) == [i \in DOMAIN text |-> Lower(text[i])]

\* a text: its words in order; "" is the text without words
Texts == UNION {[1..n -> Words] : n \in 0..MaxWords}

\* the first rules of RULES in declared order, the matcher split at "|"
RULES == <<
    [id |-> "R001", matcher |-> << <<"rate", "limit">> >>,
     business_impact |-> "CRITICAL"],
    [id |-> "R002", matcher |-> << <<"weak", "cipher">>, <<"tls">>, <<"ssl">> >>,
     business_impact |-> "HIGH"],
    [id |-> "R003", matcher |-> << <<"debug">>, <<"dev", "endpoint">>, <<"internal">> >>,
     business_impact |-> "MEDIUM"],
    [id |-> "R004", matcher |-> << <<"dev", "dependency">>, <<"devDependencies">> >>,
     business_impact |-> "LOW"] >>

NoRule == [id |-> "none", matcher |-> <<>>, business_impact |-> ""]

\* re.search(pattern, text) for a pattern without metacharacters: the
\* pattern's words occur in the text, next to each other and in order
ReSearch(pattern, text) ==
    \E k \in 0..(Len(text) - Len(pattern)) :
        \A i \in 1..Len(pattern) : text[k + i] = pattern[i]

\* one turn of the loop over RULES: some pattern of the lower-cased matcher is
\* found in the description or in the title
RuleMatches(rule, finding_desc, finding_title) ==
    \E p \in DOMAIN rule.matcher :
        LET pattern == LowerText(rule.matcher[p])
        IN ReSearch(pattern, finding_desc) \/ ReSearch(pattern, finding_title)

RECURSIVE LastMatch(_, _, _)
\* a slip that keeps looking after a match: the last matching rule wins
LastMatch(rules, finding_desc, finding_title) ==
    IF rules = <<>> THEN NoRule
    ELSE LET later == LastMatch(Tail(rules), finding_desc, finding_title)
         IN IF later # NoRule THEN later
            ELSE IF RuleMatches(Head(rules), finding_desc, finding_title)
                 THEN Head(rules) ELSE NoRule

RECURSIVE FirstMatch(_, _, _)
\* the loop of find_matching_rule over rules: the first rule that matches
FirstMatch(rules, finding_desc, finding_title) ==
    IF rules = <<>> THEN NoRule
    ELSE IF RuleMatches(Head(rules), finding_desc, finding_title) THEN Head(rules)
    ELSE FirstMatch(Tail(rules), finding_desc, finding_title)

\* find_matching_rule
FindMatchingRule(finding) ==
    FirstMatch(RULES, LowerText(finding.description), LowerText(finding.title))

\* one call of find_matching_rule
FindMatchingRuleCall ==
    /\ match_call.args # <<>>
    /\ match_call.out = NotCalled
    /\ match_call' = [match_call EXCEPT !.out = <<FindMatchingRule(match_call.args[1])>>]
    /\ UNCHANGED <<runVars, gateVars, scanVars, fp_call, prio_call, eval_call, plan_call>>

\* ---------------------------------------------------------------------
\* app/remediation/evaluator.py: the remediation plan of a scan

\* extract_technical_severity: the 1-10 value of a severity, 3 for an unknown one
ExtractTechnicalSeverity(finding) ==
    CASE finding.severity = "critical" -> 9
      [] finding.severity = "high" -> 7
      [] finding.severity = "medium" -> 5
      [] finding.severity = "low" -> 3
      [] finding.severity = "info" -> 1
      [] OTHER -> 3

\* extract_exploitability
ExtractExploitability(finding) == 1

\* findings a scan can report
EvalFindings == {
    [title |-> <<"TLS">>, description |-> <<"tls">>, severity |-> "critical"],
    [title |-> <<>>, description |-> <<"rate", "limit">>, severity |-> "low"],
    [title |-> <<"Debug">>, description |-> <<"dev", "endpoint">>, severity |-> "medium"],
    [title |-> <<"dev">>, description |-> <<"dev", "dependency">>, severity |-> "high"],
    [title |-> <<"dev">>, description |-> <<"limit">>, severity |-> "high"] }

\* the Remediation built for a finding and the rule it matched
RemediationOf(finding, rule_match) ==
    LET technical_severity == ExtractTechnicalSeverity(finding)
        business_impact == MapBusinessImpact(rule_match.business_impact)
        exploitability == ExtractExploitability(finding)
    IN [priority |-> CalculatePriority(technical_severity, business_impact, exploitability),
        rule |-> rule_match.id,
        technical_risk |-> finding.description]

RECURSIVE Remediations(_)
\* the loop of evaluate_scan: one Remediation per finding that matches a rule,
\* in the order of the findings
Remediations(fs) ==
    IF fs = <<>> THEN <<>>
    ELSE LET rule_match == FindMatchingRule(Head(fs))
         IN IF rule_match = NoRule THEN Remediations(Tail(fs))
            ELSE <<RemediationOf(Head(fs), rule_match)>> \o Remediations(Tail(fs))

\* an item put into a list sorted by priority_order, behind every item of the
\* same key
InsertLast(item, sorted) ==
    LET before == {i \in DOMAIN sorted :
                      PriorityOrder[sorted[i].priority] <= PriorityOrder[item.priority]}
        n == Cardinality(before)
    IN SubSeq(sorted, 1, n) \o <<item>> \o SubSeq(sorted, n + 1, Len(sorted))

RECURSIVE SortByPriority(_)
\* list.sort(key=priority_order): ascending in the key and stable, items of one
\* key keep their order
SortByPriority(items) ==
    IF items = <<>> THEN <<>>
    ELSE InsertLast(items[Len(items)], SortByPriority(SubSeq(items, 1, Len(items) - 1)))

\* evaluate_scan
EvaluateScan(fs) == SortByPriority(Remediations(fs))

\* one call of evaluate_scan, on the i-th list of findings
EvaluateScanCall(i) ==
    /\ i \in DOMAIN eval_call.args
    /\ eval_call.out[i] = NotCalled
    /\ eval_call' = [eval_call EXCEPT !.out[i] = <<EvaluateScan(eval_call.args[i])>>]
    /\ UNCHANGED <<runVars, gateVars, scanVars, fp_call, prio_call, match_call, plan_call>>

\* ---------------------------------------------------------------------
\* app/remediation/business_evaluator.py: the business-context plan

\* tagged business assets: asset_type, data_sensitivity, downtime cost
AssetSamples == {
    [asset_type |-> "REVENUE", data_sensitivity |-> "PCI", downtime_cost_per_hour |-> 50000],
    [asset_type |-> "COMPLIANCE", data_sensitivity |-> "PHI", downtime_cost_per_hour |-> 10000],
    [asset_type |-> "REVENUE", data_sensitivity |-> "PUBLIC", downtime_cost_per_hour |-> 500],
    [asset_type |-> "ANALYTICS", data_sensitivity |-> "PII", downtime_cost_per_hour |-> 100],
    [asset_type |-> "OPERATIONAL", data_sensitivity |-> "INTERNAL", downtime_cost_per_hour |-> 0] }

\* rows of remediation_rules; exposure_multiplier is 1 unless a rule sets it
RuleSamples == {
    [vuln_type |-> "RLS_BYPASS", base_priority_score |-> 100, revenue_bonus |-> 20,
     compliance_bonus |-> 30, exposure_multiplier |-> 1, severity_label |-> "CRITICAL"],
    [vuln_type |-> "WEAK_MASKING", base_priority_score |-> 90, revenue_bonus |-> 0,
     compliance_bonus |-> 35, exposure_multiplier |-> 1, severity_label |-> "HIGH"],
    [vuln_type |-> "AUDIT_LOG_GAP", base_priority_score |-> 40, revenue_bonus |-> 20,
     compliance_bonus |-> 30, exposure_multiplier |-> 2, severity_label |-> "MEDIUM"] }

\* a vulnerability matched to its rule on an asset
Matches == [asset : AssetSamples, rule : RuleSamples]

RegulatedSensitivities == {"PCI", "PII", "PHI"}

\* priority_rank inside forgescan_security.generate_remediation_plan: base
\* score plus the bonuses that apply, scaled by the rule's exposure_multiplier
SqlPriorityRank(asset, rule) ==
    (rule.base_priority_score
        + (IF asset.asset_type = "REVENUE" THEN rule.revenue_bonus ELSE 0)
        + (IF asset.data_sensitivity \in RegulatedSensitivities
           THEN rule.compliance_bonus ELSE 0))
    * rule.exposure_multiplier

\* a row of forgescan_security.generate_remediation_plan, its columns in the
\* order of the SELECT list: priority_rank, asset_type, data_sensitivity,
\* vulnerability, downtime_cost_per_hour, severity
SqlPlanRow(match) ==
    <<SqlPriorityRank(match.asset, match.rule), match.asset.asset_type,
      match.asset.data_sensitivity, match.rule.vuln_type,
      match.asset.downtime_cost_per_hour, match.rule.severity_label>>

\* ORDER BY priority_rank DESC: the orders the store can return rows in
RankDescending(rows) ==
    {q \in [1..Cardinality(rows) -> rows] :
        /\ \A i, j \in DOMAIN q : q[i] = q[j] => i = j
        /\ \A i \in 1..(Len(q) - 1) : q[i][1] >= q[i + 1][1]}

\* a slip in the column positions: priority_rank read from the downtime cost
PlanItemShifted(row) ==
    [priority_rank |-> row[5], asset_type |-> row[2], data_sensitivity |-> row[3],
     vulnerability |-> row[4], downtime_cost_per_hour |-> row[5], severity |-> row[6]]

\* the dict generate_remediation_plan builds from a row
PlanItem(row) ==
    [priority_rank |-> row[1], asset_type |-> row[2], data_sensitivity |-> row[3],
     vulnerability |-> row[4], downtime_cost_per_hour |-> row[5], severity |-> row[6]]

NoDecision == ""

NoPlanCall == [args |-> <<>>, out |-> <<>>, decision |-> NoDecision]

\* generate_remediation_plan for the tenant whose open matches are args[1]
GenerateRemediationPlanCall ==
    /\ plan_call.args # <<>>
    /\ plan_call.out = NotCalled
    /\ \E rows \in RankDescending({SqlPlanRow(x) : x \in plan_call.args[1]}) :
          plan_call' = [plan_call EXCEPT
                           !.out = << [i \in DOMAIN rows |-> PlanItem(rows[i])] >>]
    /\ UNCHANGED <<runVars, gateVars, scanVars, fp_call, prio_call, match_call, eval_call>>

\* the largest of a non-empty set of numbers
Maximum(S) == CHOOSE x \in S : \A y \in S : y <= x

\* the release gate evaluated for the tenant: the decision of
\* forgescan_security.enforce_release_gate on the highest open priority_rank
PlanGateCall ==
    /\ plan_call.out # NotCalled
    /\ plan_call.decision = NoDecision
    /\ LET plan == plan_call.out[1]
           p == IF plan = <<>> THEN 0
                ELSE Maximum({plan[i].priority_rank : i \in DOMAIN plan})
       IN plan_call' = [plan_call EXCEPT !.decision = SqlGateDecision(p)]
    /\ UNCHANGED <<runVars, gateVars, scanVars, fp_call, prio_call, match_call, eval_call>>

\* ---------------------------------------------------------------------
\* app/workers/scanner_worker.py: one run of execute_scan_task, await by await

\* the order in which PluginManager.initialize builds the scanners
PluginOrder == <<"web_scanner", "api_scanner">>

NoException == ""
ValueError == "ValueError"
DatabaseError == "DatabaseError"
PendingRollbackError == "PendingRollbackError"
InitializeError == "InitializeError"
CancelledError == "CancelledError"

\* except Exception: asyncio.CancelledError derives from BaseException
IsException(exc) == exc # NoException /\ exc # CancelledError

NoResult == [status |-> "", findings |-> 0, summary |-> None, error |-> ""]

ScanError == "scan error"

\* the scan row as the task reads and writes it; "missing" when no row exists
ScanRow(status) == [status |-> status, error_message |-> "", findings_summary |-> None]

\* the task of a scan, queued
QueuedTask(scanner_type, target, status) ==
    [pc |-> "initialize", scanner_type |-> scanner_type, target |-> target,
     next_plugin |-> 1, plugins |-> {}, open |-> {},
     checks |-> 0, collected |-> 0, early |-> "", result |-> NoResult,
     stored |-> 0, exc |-> NoException, faulted |-> FALSE, session_bad |-> FALSE,
     was_running |-> FALSE, row |-> ScanRow(status)]

\* the task of a web scan of a valid target
FirstTask == QueuedTask("web", [scheme |-> "https", netloc |-> "app"], "pending")

\* scan_repo.update(scan_id, values) and commit: no row, nothing written
UpdateScan(row, status, error_message, findings_summary) ==
    IF row.status = "missing" THEN row
    ELSE [status |-> status, error_message |-> error_message,
          findings_summary |-> findings_summary]

\* _update_scan_failed that leaves the row alone
UpdateScanFailedSkipped(row, error_message) == row

\* _update_scan_failed: a session of its own sets the scan to failed
UpdateScanFailed(row, error_message) ==
    UpdateScan(row, "failed", error_message, row.findings_summary)

\* _calculate_summary: total_findings of self.findings
CalculateSummary(collected) == Some(collected)

\* PluginManager.initialize, one turn of its loop: scanner.initialize() opens
\* the HTTP client and the scanner is registered, or initialize raises and
\* the exception leaves _execute_scan_async before its try statement
PluginInitialize(ok) ==
    /\ run.pc = "initialize"
    /\ LET name == PluginOrder[run.next_plugin]
       IN IF ok
          THEN run' = [run EXCEPT
                   !.open = @ \cup {name}, !.plugins = @ \cup {name},
                   !.next_plugin = @ + 1,
                   !.pc = IF run.next_plugin = Len(PluginOrder) THEN "start" ELSE @]
          ELSE run' = [run EXCEPT !.exc = InitializeError, !.pc = "outer"]
    /\ UNCHANGED <<gateVars, scanVars, callVars, requests, plugin>>

\* scan_repo.get and the update to running; no row raises ValueError
UpdateRunning ==
    /\ run.pc = "start"
    /\ IF run.row.status = "missing"
       THEN run' = [run EXCEPT !.exc = ValueError, !.pc = "except"]
       ELSE run' = [run EXCEPT
                !.row = UpdateScan(run.row, "running", @.error_message, @.findings_summary),
                !.was_running = TRUE, !.pc = "resolve"]
    /\ UNCHANGED <<gateVars, scanVars, callVars, requests, plugin>>

\* plugin_manager.get_scanner; None raises ValueError
ResolveScanner ==
    /\ run.pc = "resolve"
    /\ IF GetScanner(run.scanner_type, run.target) = NoScanner
       THEN run' = [run EXCEPT !.exc = ValueError, !.pc = "except"]
       ELSE run' = [run EXCEPT !.pc = "scan"]
    /\ UNCHANGED <<gateVars, scanVars, callVars, requests, plugin>>

\* scanner.scan, one check: its probes append found findings to self.findings;
\* after the last check the result is COMPLETED
ScannerCheck(found) ==
    /\ run.pc = "scan"
    /\ run.checks < MaxChecks
    /\ LET collected == run.collected + found
       IN run' = [run EXCEPT
              !.checks = @ + 1, !.collected = collected,
              !.result = IF run.checks + 1 = MaxChecks
                         THEN [status |-> "completed", findings |-> collected,
                               summary |-> CalculateSummary(collected), error |-> ""]
                         ELSE @,
              !.pc = IF run.checks + 1 = MaxChecks THEN "store" ELSE @]
    /\ UNCHANGED <<gateVars, scanVars, callVars, requests, plugin>>

\* scanner.scan, a check raises outside its probes: the result is FAILED with
\* the findings collected so far, their summary and the error
ScannerRaise ==
    /\ run.pc = "scan"
    /\ run.checks < MaxChecks
    /\ run' = [run EXCEPT
           !.early = "cannot proceed",
           !.result = [status |-> "failed", findings |-> run.collected,
                       summary |-> CalculateSummary(run.collected), error |-> ScanError],
           !.pc = "store"]
    /\ UNCHANGED <<gateVars, scanVars, callVars, requests, plugin>>

\* one turn of the loop over result.findings: finding_repo.create commits the
\* row, or the write fails and leaves the session usable or in need of a
\* rollback
StoreFinding(ok, bad) ==
    /\ run.pc = "store"
    /\ run.stored < run.result.findings
    /\ IF ok
       THEN /\ ~bad
            /\ run' = [run EXCEPT !.stored = @ + 1]
       ELSE /\ ~run.faulted
            /\ run' = [run EXCEPT !.exc = DatabaseError, !.faulted = TRUE,
                                    !.session_bad = bad, !.pc = "except"]
    /\ UNCHANGED <<gateVars, scanVars, callVars, requests, plugin>>

\* after the loop: the scan row takes the result's status, summary and error
UpdateResults(ok, bad) ==
    /\ run.pc = "store"
    /\ run.stored = run.result.findings
    /\ IF ok
       THEN /\ ~bad
            /\ run' = [run EXCEPT
                   !.row = UpdateScan(run.row,
                               IF run.result.status = "completed"
                               THEN "completed" ELSE "failed",
                               run.result.error, run.result.summary),
                   !.pc = "finally"]
       ELSE /\ ~run.faulted
            /\ run' = [run EXCEPT !.exc = DatabaseError, !.faulted = TRUE,
                                    !.session_bad = bad, !.pc = "except"]
    /\ UNCHANGED <<gateVars, scanVars, callVars, requests, plugin>>

\* except Exception of _execute_scan_async: the scan is set to failed on the
\* task's session and the exception is raised again; a session that needs a
\* rollback raises instead of writing
ExceptUpdate ==
    /\ run.pc = "except"
    /\ IF run.session_bad
       THEN run' = [run EXCEPT !.exc = PendingRollbackError, !.pc = "finally"]
       ELSE run' = [run EXCEPT
                !.row = UpdateScan(run.row, "failed", run.exc, @.findings_summary),
                !.pc = "finally"]
    /\ UNCHANGED <<gateVars, scanVars, callVars, requests, plugin>>

\* finally: plugin_manager.cleanup_all closes the client of every registered
\* plugin; the task returns or the exception goes on to execute_scan_task
CleanupAll ==
    /\ run.pc = "finally"
    /\ run' = [run EXCEPT !.open = @ \ run.plugins,
                            !.pc = IF run.exc = NoException THEN "ended" ELSE "outer"]
    /\ UNCHANGED <<gateVars, scanVars, callVars, requests, plugin>>

\* execute_scan_task: except Exception runs _update_scan_failed and raises;
\* any other exception leaves the task as it is
ExecuteScanTaskExcept ==
    /\ run.pc = "outer"
    /\ run' = [run EXCEPT
           !.row = IF IsException(run.exc) THEN UpdateScanFailed(@, run.exc) ELSE @,
           !.pc = "ended"]
    /\ UNCHANGED <<gateVars, scanVars, callVars, requests, plugin>>

\* the task is cancelled at an await: CancelledError is raised there, passes
\* every except Exception, and runs the finally of the try it is inside
CancelTask ==
    /\ run.pc \in {"initialize", "start", "resolve", "scan", "store", "except"}
    /\ run' = [run EXCEPT
           !.exc = CancelledError,
           !.early = IF run.pc = "scan" THEN "cancelled" ELSE @,
           !.pc = IF run.pc = "initialize" THEN "outer" ELSE "finally"]
    /\ UNCHANGED <<gateVars, scanVars, callVars, requests, plugin>>

\* ---------------------------------------------------------------------
\* app/scanners/web_scanner.py, api_scanner.py: scan calls on one instance

\* the calls of scan on the instance
ScanCalls == {"a", "b"}

\* the list object a call's "self.findings = []" creates; __init__ made list 0
ListOf(s) == IF s = "a" THEN 1 ELSE 2

InitList == 0

Lists == {InitList} \cup {ListOf(s) : s \in ScanCalls}

\* a call of scan: its position, the findings its own probes produced, the
\* probe failures it logged, and the ScanResult it returned, whose findings
\* field is a reference to a list
IdleScan ==
    [pc |-> "idle", check |-> 0, own |-> <<>>, logged |-> 0, aborted |-> FALSE,
     status |-> "", findings |-> InitList, summary |-> None, error |-> ""]

\* a probe whose failure leaves the check and the scan
ProbeFailedRaises(sc) == [sc EXCEPT !.pc = "raised"]

\* except Exception around a probe: the failure is logged and the check goes on
ProbeFailed(sc) == [sc EXCEPT !.logged = @ + 1, !.check = @ + 1]

\* scan begins: self.findings is bound to a new empty list
ScanBegin(s) ==
    /\ plugin.scan[s].pc = "idle"
    /\ plugin' = [plugin EXCEPT
           !.findings = ListOf(s),
           !.lists[ListOf(s)] = <<>>,
           !.scan[s] = [IdleScan EXCEPT !.pc = "running", !.check = 1]]
    /\ UNCHANGED <<gateVars, scanVars, callVars, requests, run>>

\* one check of the scan: its probe finds nothing, or appends a finding to
\* the list self.findings is bound to at that moment, or fails
ScanProbe(s, outcome) ==
    /\ plugin.scan[s].pc = "running"
    /\ plugin.scan[s].check <= MaxChecks
    /\ LET sc == plugin.scan[s]
           finding == <<s, sc.check>>
       IN CASE outcome = "finding" ->
                 plugin' = [plugin EXCEPT
                     !.lists[plugin.findings] = Append(@, finding),
                     !.scan[s] = [sc EXCEPT !.own = Append(@, finding), !.check = @ + 1]]
            [] outcome = "clean" ->
                 plugin' = [plugin EXCEPT !.scan[s] = [sc EXCEPT !.check = @ + 1]]
            [] outcome = "failed" ->
                 plugin' = [plugin EXCEPT !.scan[s] = ProbeFailed(sc)]
    /\ UNCHANGED <<gateVars, scanVars, callVars, requests, run>>

\* a check raises outside its probes
ScanCheckRaise(s) ==
    /\ plugin.scan[s].pc = "running"
    /\ plugin.scan[s].check <= MaxChecks
    /\ plugin' = [plugin EXCEPT !.scan[s] = [@ EXCEPT !.pc = "raised", !.aborted = TRUE]]
    /\ UNCHANGED <<gateVars, scanVars, callVars, requests, run>>

\* after the last check: ScanResult(COMPLETED, findings=self.findings,
\* summary=self._calculate_summary())
ScanReturn(s) ==
    /\ plugin.scan[s].pc = "running"
    /\ plugin.scan[s].check > MaxChecks
    /\ plugin' = [plugin EXCEPT !.scan[s] = [@ EXCEPT
           !.pc = "returned", !.status = "completed",
           !.findings = plugin.findings,
           !.summary = CalculateSummary(Len(plugin.lists[plugin.findings]))]]
    /\ UNCHANGED <<gateVars, scanVars, callVars, requests, run>>

\* except Exception of scan: ScanResult(FAILED, findings=self.findings,
\* summary=self._calculate_summary(), error=str(e))
ScanExcept(s) ==
    /\ plugin.scan[s].pc = "raised"
    /\ plugin' = [plugin EXCEPT !.scan[s] = [@ EXCEPT
           !.pc = "returned", !.status = "failed",
           !.findings = plugin.findings,
           !.summary = CalculateSummary(Len(plugin.lists[plugin.findings])),
           !.error = ScanError]]
    /\ UNCHANGED <<gateVars, scanVars, callVars, requests, run>>

\* the findings of a returned ScanResult, as its caller reads them
ResultFindings(s) == plugin.lists[plugin.scan[s].findings]

\* time passes
Tick ==
    /\ clock < MaxClock
    /\ clock' = clock + 1
    /\ UNCHANGED <<decisions, ledger, sess, next_id, next_ev>>
    /\ UNCHANGED <<scanVars, callVars, runVars>>

InitTables ==
    /\ decisions = {}
    /\ ledger = {}
    /\ sess = [s \in Sessions |-> IdleSession]
    /\ next_id = 1
    /\ next_ev = 1
    /\ clock = 0
    /\ scans = {}
    /\ findings = {}
    /\ queue = {}
    /\ workers = [w \in Workers |-> IdleWorker]
    /\ next_scan = 1
    /\ next_finding = 1
    /\ requests = [c \in Clients |-> IdleRequest]
    /\ plugin = [findings |-> InitList, lists |-> [l \in Lists |-> <<>>],
                 scan |-> [s \in ScanCalls |-> IdleScan]]

Init ==
    /\ InitTables
    /\ run = FirstTask
    /\ fp_call = NoCall
    /\ prio_call = NoCall
    /\ match_call = NoCall
    /\ eval_call = NoCall
    /\ plan_call = NoPlanCall

\* the requests of a set of sessions, the store reporting priorities in samples
NextOf(S, samples) ==
    \/ \E s \in S, t \in Tenants : ApiGate(s, t)
    \/ \E s \in S : GateQuery(s, samples)
    \/ \E s \in S : GateLog(s)
    \/ \E s \in S : ApiClose(s)
    \/ \E s \in S, t \in Tenants, p \in DirectSamples : SvcLog(s, t, p)
    \/ \E s \in S : SvcCommit(s)
    \/ \E s \in S : SvcClose(s)
    \/ \E s \in S, id \in 1..MaxDecisions, u \in Users : ApiAck(s, id, u)
    \/ \E s \in S : ApiAckCommit(s)
    \/ \E s \in S : ApiAckRollback(s)
    \/ \E s \in S, t \in Tenants : ApiQuota(s, t)
    \/ Tick

\* two concurrent sessions, one priority per enforcement level
Next == NextOf(Sessions, LevelSamples)

Spec == Init /\ [][Next]_vars

\* one session, every boundary priority
NextGate == NextOf({"s1"}, PrioritySamples)

SpecGate == Init /\ [][NextGate]_vars

\* the ledger's callers: sessions S appending evidence of the given tenants,
\* types and entities, and verifying it
LedgerNextOf(S, tenants, types, entities) ==
    \/ \E s \in S, t \in tenants, ty \in types, en \in entities, p \in Payloads :
          next_ev <= MaxEvidence /\ LogEvidence(s, t, ty, en, p)
    \/ \E s \in S, id \in 1..MaxEvidence, p \in Payloads : VerifyEvidence(s, id, p)
    \/ \E s \in S : SvcCommit(s)
    \/ \E s \in S : SvcClose(s)

NextLedger == LedgerNextOf({"s1"}, {"free_tenant"}, {"ENFORCEMENT"}, {"e1"})

SpecLedger == Init /\ [][NextLedger]_vars

\* writers S appending evidence of one entity, each in its own transaction
AppendNextOf(S, payloads) ==
    \/ \E s \in S, p \in payloads :
          next_ev <= MaxRecords /\ LogEvidence(s, "free_tenant", "ENFORCEMENT", "e1", p)
    \/ \E s \in S : SvcCommit(s)
    \/ \E s \in S : SvcClose(s)

\* the payloads that differ only in their keys and the order of insertion
KeyOrders == {p \in Payloads : \A i \in DOMAIN p : p[i][2] = 0}

NextAppend == AppendNextOf(Sessions, KeyOrders)

SpecAppend == Init /\ [][NextAppend]_vars

\* the record types of a detection -> enforcement -> remediation narrative
NarrativeTypes == {"SCAN", "ENFORCEMENT", "REMEDIATION"}

\* one caller logging the events of entities and asking for their history
NextTimeline ==
    \/ \E t \in Tenants, ty \in NarrativeTypes, en \in Entities :
          next_ev <= MaxRecords /\ LogEvidence("s1", t, ty, en, <<>>)
    \/ \E t \in Tenants, en \in Entities : GetEvidenceByEntity("s1", t, en)
    \/ \E t \in Tenants, en \in Entities : ApiEntityHistory("s1", t, en)
    \/ ApiClose("s1")
    \/ SvcCommit("s1")
    \/ SvcClose("s1")

SpecTimeline == Init /\ [][NextTimeline]_vars

\* scan requests of tenants ts for the given scanner types and targets, run
\* by the workers ws
ScanNextOf(ts, types, targets, ws) ==
    \/ \E t \in ts, ty \in types, tg \in targets : CreateScan(t, ty, tg)
    \/ \E w \in ws : WorkerStart(w)
    \/ \E w \in ws : WorkerResolve(w)
    \/ \E w \in ws : WorkerScan(w)
    \/ \E w \in ws : WorkerStoreFinding(w)
    \/ \E w \in ws : WorkerFinish(w)
    \/ \E w \in ws : WorkerExit(w)
    \/ \E t \in ts, id \in 1..MaxScans : DeleteScan(t, id)

NextScan == ScanNextOf(Tenants, ScannerTypes, Targets, Workers)

SpecScan == Init /\ [][NextScan]_vars

\* the clients of one free-plan tenant posting scans while the month passes
NextQuota ==
    \/ \E c \in Clients : CheckPlanLimits(c, "free_tenant")
    \/ \E c \in Clients, ty \in {"web", "api"} :
          CreateScanRow(c, ty, [scheme |-> "https", netloc |-> "app"])
    \/ Tick

SpecQuota == Init /\ [][NextQuota]_vars

\* the steps of the scan calls S on the instance
PluginNextOf(S) ==
    \/ \E s \in S : ScanBegin(s)
    \/ \E s \in S, outcome \in {"finding", "clean", "failed"} : ScanProbe(s, outcome)
    \/ \E s \in S : ScanCheckRaise(s)
    \/ \E s \in S : ScanReturn(s)
    \/ \E s \in S : ScanExcept(s)

\* scans awaited concurrently on the instance
NextPlugin == PluginNextOf(ScanCalls)

SpecPlugin == Init /\ [][NextPlugin]_vars

\* the instance used for one scan at a time
NextPluginSerial ==
    \/ PluginNextOf({"a"})
    \/ plugin.scan["a"].pc = "returned" /\ PluginNextOf({"b"})

SpecPluginSerial == Init /\ [][NextPluginSerial]_vars

\* the task of any scan request, with or without its scan row
InitTask ==
    /\ InitTables
    /\ fp_call = NoCall
    /\ prio_call = NoCall
    /\ match_call = NoCall
    /\ eval_call = NoCall
    /\ plan_call = NoPlanCall
    /\ \E ty \in ScannerTypes, tg \in Targets, status \in {"pending", "missing"} :
          run = QueuedTask(ty, tg, status)

\* the steps of the task while nothing cancels it
NextTaskRun ==
    \/ \E ok \in BOOLEAN : PluginInitialize(ok)
    \/ UpdateRunning
    \/ ResolveScanner
    \/ \E found \in {0, 1} : ScannerCheck(found)
    \/ ScannerRaise
    \/ \E ok, bad \in BOOLEAN : StoreFinding(ok, bad)
    \/ \E ok, bad \in BOOLEAN : UpdateResults(ok, bad)
    \/ ExceptUpdate
    \/ CleanupAll
    \/ ExecuteScanTaskExcept

NextTask == NextTaskRun \/ CancelTask

SpecTask == InitTask /\ [][NextTask]_vars

\* the worker runs the task to its end
SpecTaskRun == InitTask /\ [][NextTaskRun]_vars /\ WF_vars(NextTaskRun)

\* fingerprint_finding on two argument lists that differ in at most one field
InitFingerprint ==
    /\ InitTables
    /\ run = FirstTask
    /\ prio_call = NoCall
    /\ match_call = NoCall
    /\ eval_call = NoCall
    /\ plan_call = NoPlanCall
    /\ \E a \in FpInputs, b \in FpInputs :
          /\ Cardinality(Changed(a, b)) <= 1
          /\ fp_call = [args |-> <<a, b>>, out |-> <<NotCalled, NotCalled>>]

NextFingerprint == \E i \in 1..2 : FingerprintCall(i)

SpecFingerprint == InitFingerprint /\ [][NextFingerprint]_vars

\* fingerprint_finding on any two argument lists, the separator among their
\* characters
InitSeparator ==
    /\ InitTables
    /\ run = FirstTask
    /\ prio_call = NoCall
    /\ match_call = NoCall
    /\ eval_call = NoCall
    /\ plan_call = NoPlanCall
    /\ \E a \in SeparatorInputs, b \in SeparatorInputs :
          fp_call = [args |-> <<a, b>>, out |-> <<NotCalled, NotCalled>>]

SpecSeparator == InitSeparator /\ [][NextFingerprint]_vars

\* calculate_priority on two argument lists with the same technical severity
\* and exploitability
InitPriority ==
    /\ InitTables
    /\ run = FirstTask
    /\ fp_call = NoCall
    /\ match_call = NoCall
    /\ eval_call = NoCall
    /\ plan_call = NoPlanCall
    /\ \E a \in PriorityInputs, b \in PriorityInputs :
          /\ a.technical_severity = b.technical_severity
          /\ a.exploitability = b.exploitability
          /\ prio_call = [args |-> <<a, b>>, out |-> <<NoClass, NoClass>>]

NextPriority == \E i \in 1..2 : PriorityCall(i)

SpecPriority == InitPriority /\ [][NextPriority]_vars

\* find_matching_rule on one finding
InitMatch ==
    /\ InitTables
    /\ run = FirstTask
    /\ fp_call = NoCall
    /\ prio_call = NoCall
    /\ eval_call = NoCall
    /\ plan_call = NoPlanCall
    /\ \E title \in Texts, description \in Texts :
          match_call = [args |-> << [title |-> title, description |-> description] >>,
                        out |-> NotCalled]

NextMatch == FindMatchingRuleCall

SpecMatch == InitMatch /\ [][NextMatch]_vars

\* the lists of up to MaxBatch findings
Batches == UNION {[1..n -> EvalFindings] : n \in 0..MaxBatch}

\* b holds the findings of a in another order
Reordered(a, b) ==
    /\ Len(a) = Len(b)
    /\ \E p \in [DOMAIN a -> DOMAIN a] :
          /\ \A i, j \in DOMAIN a : p[i] = p[j] => i = j
          /\ \A i \in DOMAIN a : b[i] = a[p[i]]

\* evaluate_scan on the same findings supplied in two orders
InitEvaluate ==
    /\ InitTables
    /\ run = FirstTask
    /\ fp_call = NoCall
    /\ prio_call = NoCall
    /\ match_call = NoCall
    /\ plan_call = NoPlanCall
    /\ \E a \in Batches, b \in Batches :
          /\ Reordered(a, b)
          /\ eval_call = [args |-> <<a, b>>, out |-> <<NotCalled, NotCalled>>]

NextEvaluate == \E i \in 1..2 : EvaluateScanCall(i)

SpecEvaluate == InitEvaluate /\ [][NextEvaluate]_vars

\* generate_remediation_plan and the gate for a tenant with up to MaxOpen
\* open vulnerabilities
InitPlan ==
    /\ InitTables
    /\ run = FirstTask
    /\ fp_call = NoCall
    /\ prio_call = NoCall
    /\ match_call = NoCall
    /\ eval_call = NoCall
    /\ \E open \in SUBSET Matches :
          /\ Cardinality(open) <= MaxOpen
          /\ plan_call = [args |-> <<open>>, out |-> NotCalled, decision |-> NoDecision]

NextPlan == GenerateRemediationPlanCall \/ PlanGateCall

SpecPlan == InitPlan /\ [][NextPlan]_vars

\* ------------------------------------------------------------- properties
\* a gate request of session s has returned a result carrying a decision id
GateReturned(s) ==
    /\ sess[s].op = "gate"
    /\ sess[s].pc = "done"
    /\ sess[s].store = "row"
    /\ sess[s].resp.kind = "result"

C2_GateFailureIsHardError ==
    \A s \in Sessions :
        (sess[s].op = "gate" /\ sess[s].pc = "done" /\ sess[s].store \in {"norow", "raise"}) =>
            /\ sess[s].resp.kind = "error"
            /\ sess[s].resp.decision \notin {"BLOCK", "ALLOW_WITH_ACK", "WARN", "ALLOW"}
            /\ sess[s].ins = {}

\* C3 (as claimed): a gate evaluation that returns a decision has written the
\* decision and its ENFORCEMENT evidence record in the same transaction, and
\* the committed decisions and their evidence records never diverge.
C3_DecisionWithEvidence ==
    /\ \A s \in Sessions : GateReturned(s) =>
          /\ \E d \in sess[s].ins : d.id = sess[s].resp.decision_id
          /\ \E e \in sess[s].evs :
                e.evidence_type = "ENFORCEMENT" /\ e.tenant = sess[s].tenant
    /\ \A d \in decisions : \E e \in ledger :
          e.evidence_type = "ENFORCEMENT" /\ e.tenant = d.tenant
    /\ \A e \in ledger : e.evidence_type = "ENFORCEMENT" =>
          \E d \in decisions : d.tenant = e.tenant

\* a gate evaluation of session s holds a HARD_FAIL row that passed the quota check
PassedQuota(s) ==
    /\ sess[s].op = "gate"
    /\ sess[s].store = "row"
    /\ sess[s].row.level = "HARD_FAIL"
    /\ sess[s].row.reason # QuotaFailedReason

\* C4 (as claimed): no two gate evaluations of one free-tier tenant in the
\* same month both pass the quota check.
C4_QuotaPassedOnce ==
    \A s1, s2 \in Sessions :
        (/\ s1 # s2
         /\ PassedQuota(s1) /\ PassedQuota(s2)
         /\ sess[s1].tenant = sess[s2].tenant
         /\ TierOf(sess[s1].tenant) = "FREE")
        => MonthOf(sess[s1].qtime) # MonthOf(sess[s2].qtime)

QuotaReturned(s) ==
    /\ sess[s].op = "quota"
    /\ sess[s].pc = "done"
    /\ sess[s].resp.kind = "result"

C7_OnlySoftFailAcked ==
    /\ \A d \in decisions :
          d.level # "SOFT_FAIL" => d.acked_by = NoUser /\ d.acked_at = NoTime
    /\ \A s \in Sessions :
          (sess[s].op = "ack" /\ sess[s].pc = "done" /\ sess[s].target \notin {"", "SOFT_FAIL"})
             => sess[s].resp.kind = "error"

\* C8 (as claimed): once a decision carries an acknowledgement, no later
\* acknowledge call changes its acked_by or acked_at.
C8_AckedOnce ==
    [][\A d \in decisions : d.acked_by # NoUser =>
          \E e \in decisions' :
             e.id = d.id /\ e.acked_by = d.acked_by /\ e.acked_at = d.acked_at]_vars

\* C9 (as claimed): no decision is ever deleted, and when a gate request that
\* returned a decision_id has ended, get_enforcement_history of the tenant
\* (default limit) returns that decision.
C9_DecisionKept ==
    [][/\ \A d \in decisions : \E e \in decisions' : e.id = d.id
       /\ \A s \in Sessions :
             (GateReturned(s) /\ sess'[s].pc = "idle") =>
                LET h == GetEnforcementHistory(decisions', sess[s].tenant, DefaultLimit)
                IN \E i \in DOMAIN h : h[i].id = sess[s].resp.decision_id]_vars

\* Q is P with one field changed, added or removed
SingleFieldMutation(P, Q) ==
    \/ /\ DOMAIN P = DOMAIN Q
       /\ Cardinality({k \in DOMAIN P : P[k] # Q[k]}) = 1
    \/ /\ DOMAIN P \subseteq DOMAIN Q
       /\ Cardinality(DOMAIN Q \ DOMAIN P) = 1
       /\ \A k \in DOMAIN P : P[k] = Q[k]
    \/ /\ DOMAIN Q \subseteq DOMAIN P
       /\ Cardinality(DOMAIN P \ DOMAIN Q) = 1
       /\ \A k \in DOMAIN Q : P[k] = Q[k]

\* the ledger row a verify call of session s looked up
Verified(s) == CHOOSE e \in VisibleLedger(s) : e.id = sess[s].vid

\* a verify call of session s found its row
VerifyFound(s) ==
    /\ sess[s].op = "verify"
    /\ sess[s].store = "row"

AllEvidence == ledger \cup UNION {sess[s].evs : s \in Sessions}

\* C11: the committed ledger is append-only: every step keeps every record
\* with the tenant, type, related_entity, payload, hash and created_at it has.
C11_AppendOnly ==
    [][\A e \in ledger : e \in ledger']_vars

\* C11 witness: a committed record is still there while a later one is appended
C11_Witness ==
    \E e \in ledger : \E s \in Sessions : \E f \in sess[s].evs :
        f.id > e.id /\ f.created_at > e.created_at

C13_TimelineAscending ==
    \A s \in Sessions :
        /\ (sess[s].op = "history" /\ sess[s].pc = "done") => sess[s].resp.kind # "error"
        /\ sess[s].op = "timeline" =>
              LET h == sess[s].timeline
              IN /\ {h[i] : i \in DOMAIN h} =
                       {e \in VisibleLedger(s) : e.tenant = sess[s].tenant
                                                  /\ e.related_entity = sess[s].entity}
                 /\ \A i, j \in DOMAIN h : i < j => h[i].created_at <= h[j].created_at

\* C14 (as claimed): at most one open finding per (tenant, fingerprint).
C14_OneOpenPerFingerprint ==
    \A f, g \in findings :
        (/\ f.tenant = g.tenant
         /\ f.fingerprint = g.fingerprint
         /\ f.status = "open" /\ g.status = "open") => f.id = g.id

\* C16 (as claimed): no step removes a finding row.
C16_FindingsKept ==
    [][\A f \in findings : \E g \in findings' : g.id = f.id]_vars

\* C17 (as claimed): a request whose scan type has no registered scanner, or
\* whose target fails validate_target, ends in "no suitable scanner" with no
\* scan invoked; scan is invoked only after validate_target returned true.
C17_ValidatedBeforeScan ==
    \A w \in Workers :
        LET me == workers[w]
        IN /\ (/\ me.validated # "none"
               /\ \/ ScannerName(me.scanner_type) \notin Plugins
                  \/ ~ValidateTarget(me.target))
              => (me.error = NoSuitableScanner /\ ~me.invoked)
           /\ me.invoked => me.validated = "true"

\* the scans of tenant t that workers are running
Running(t) ==
    {w \in Workers : workers[w].pc \in {"resolve", "scan", "store"} /\ workers[w].tenant = t}

\* C18 (as claimed): the scans of one tenant running at the same time never
\* exceed the concurrent_scans limit of the tenant's plan.
C18_ConcurrentScansBounded ==
    \A t \in Tenants : Cardinality(Running(t)) <= ConcurrentScans(PlanOf(t))

\* C15 (as claimed): fingerprint_finding is deterministic, and changing any single one of
\* scanner, rule_id, file, line, title (file and line also between absent and
\* present) while the other four stay fixed gives a different fingerprint.
C15_SensitiveToEachField ==
    (fp_call.args # <<>> /\ fp_call.out[1] # NotCalled /\ fp_call.out[2] # NotCalled)
        => /\ fp_call.args[1] = fp_call.args[2] => fp_call.out[1] = fp_call.out[2]
           /\ Cardinality(Changed(fp_call.args[1], fp_call.args[2])) = 1
                 => fp_call.out[1] # fp_call.out[2]

\* the calls of calculate_priority that have returned
Returned == {i \in DOMAIN prio_call.args : prio_call.out[i] # NoClass}

\* technical_severity x exploitability x business_impact, the impact valued
\* LOW=1, MEDIUM=2, HIGH=4, CRITICAL=8
ScoreOf(i) ==
    LET b == prio_call.out[i].business_impact
        v == CASE b = "LOW" -> 1 [] b = "MEDIUM" -> 2 [] b = "HIGH" -> 4
               [] b = "CRITICAL" -> 8
    IN prio_call.args[i].technical_severity * prio_call.args[i].exploitability * v

\* C19: calculate_priority returns P0 for a score of 24 or more, P1 for 16..23,
\* P2 for 8..15, P3 for 4..7 and P4 below 4, the score being
\* technical_severity x exploitability x business_impact.
C19_PriorityBands ==
    \A i \in Returned :
        LET p == prio_call.out[i].priority
            score == ScoreOf(i)
        IN /\ p = "P0" <=> score >= 24
           /\ p = "P1" <=> score \in 16..23
           /\ p = "P2" <=> score \in 8..15
           /\ p = "P3" <=> score \in 4..7
           /\ p = "P4" <=> score < 4

\* two calls have returned, on the lower edges of the bands P1 and P2
C19_Witness ==
    /\ Returned = {1, 2}
    /\ ScoreOf(1) = 16 /\ prio_call.out[1].priority = "P1"
    /\ ScoreOf(2) = 8 /\ prio_call.out[2].priority = "P2"

ImpactRank == [LOW |-> 1, MEDIUM |-> 2, HIGH |-> 3, CRITICAL |-> 4]

\* C20: with technical_severity and exploitability fixed, a higher business
\* impact (LOW < MEDIUM < HIGH < CRITICAL) never gives a less urgent class:
\* the P-number does not increase.
C20_MonotoneInImpact ==
    \A i \in Returned, j \in Returned :
        (/\ prio_call.args[i].technical_severity = prio_call.args[j].technical_severity
         /\ prio_call.args[i].exploitability = prio_call.args[j].exploitability
         /\ ImpactRank[prio_call.out[i].business_impact]
               < ImpactRank[prio_call.out[j].business_impact])
        => PriorityOrder[prio_call.out[j].priority]
              <= PriorityOrder[prio_call.out[i].priority]

\* the same finding classed P4 under LOW and P0 under CRITICAL
C20_Witness ==
    /\ Returned = {1, 2}
    /\ prio_call.out[1].business_impact = "LOW"
    /\ prio_call.out[2].business_impact = "CRITICAL"
    /\ prio_call.out[1].priority = "P4"
    /\ prio_call.out[2].priority = "P0"

\* the rules, by position in RULES, with a pattern that occurs in the title or
\* the description of the finding of match_call when case is ignored
Matching ==
    LET f == match_call.args[1]
    IN {r \in DOMAIN RULES :
           \E p \in DOMAIN RULES[r].matcher :
               \/ ReSearch(LowerText(RULES[r].matcher[p]), LowerText(f.title))
               \/ ReSearch(LowerText(RULES[r].matcher[p]), LowerText(f.description))}

\* C23: find_matching_rule returns the earliest rule of RULES with a pattern
\* that matches the finding's title or description case-insensitively, and no
\* rule when none matches.
C23_FirstMatchWins ==
    (match_call.args # <<>> /\ match_call.out # NotCalled)
        => IF Matching = {} THEN match_call.out[1] = NoRule
           ELSE \E r \in Matching :
                   /\ \A q \in Matching : r <= q
                   /\ match_call.out[1] = RULES[r]

\* a finding that two rules match, in another case than the matcher's, has
\* been given the earlier rule
C23_Witness ==
    /\ match_call.args # <<>> /\ match_call.out # NotCalled
    /\ Cardinality(Matching) >= 2
    /\ "TLS" \in {match_call.args[1].title[i] : i \in DOMAIN match_call.args[1].title}
    /\ match_call.out[1].id = "R002"

\* C22 (as claimed): a returned plan is ordered by score, most urgent first,
\* and ties are broken by properties of the findings alone, so the same
\* findings supplied in another order give the same plan.
C22_PlanTotallyOrdered ==
    /\ \A i \in DOMAIN eval_call.args :
          eval_call.out[i] # NotCalled =>
              LET plan == eval_call.out[i][1]
              IN \A k \in 1..(Len(plan) - 1) :
                    PriorityOrder[plan[k].priority] <= PriorityOrder[plan[k + 1].priority]
    /\ (eval_call.args # <<>> /\ eval_call.out[1] # NotCalled /\ eval_call.out[2] # NotCalled)
          => eval_call.out[1] = eval_call.out[2]

\* the items of the plan returned to plan_call
PlanItems ==
    IF plan_call.out = NotCalled THEN {}
    ELSE {plan_call.out[1][i] : i \in DOMAIN plan_call.out[1]}

\* the rule of a plan item
RuleOf(item) == CHOOSE r \in RuleSamples : r.vuln_type = item.vulnerability

\* base_priority_score + revenue_bonus (REVENUE asset) + compliance_bonus
\* (PCI, PII or PHI data)
BonusSum(item) ==
    RuleOf(item).base_priority_score
    + (IF item.asset_type = "REVENUE" THEN RuleOf(item).revenue_bonus ELSE 0)
    + (IF item.data_sensitivity \in {"PCI", "PII", "PHI"}
       THEN RuleOf(item).compliance_bonus ELSE 0)

\* the two scenarios: RLS_BYPASS on REVENUE/PCI ranks 150, WEAK_MASKING on
\* COMPLIANCE/PHI ranks 125, and either one makes the gate decide BLOCK
Scenarios ==
    \A item \in PlanItems :
        /\ (item.vulnerability = "RLS_BYPASS" /\ item.asset_type = "REVENUE"
               /\ item.data_sensitivity = "PCI") => item.priority_rank = 150
        /\ (item.vulnerability = "WEAK_MASKING" /\ item.asset_type = "COMPLIANCE"
               /\ item.data_sensitivity = "PHI") => item.priority_rank = 125
        /\ (item.priority_rank \in {125, 150} /\ plan_call.decision # NoDecision)
               => plan_call.decision = "BLOCK"

C30_DistinctKeys ==
    (fp_call.args # <<>> /\ fp_call.out[1] # NotCalled /\ fp_call.out[2] # NotCalled
        /\ fp_call.args[1] # fp_call.args[2])
        => fp_call.out[1] # fp_call.out[2]

\* C28: the scans a tenant created in one calendar month never exceed the
\* max_scans_per_month of its plan, however the requests interleave.
C28_MonthlyLimit ==
    \A t \in Tenants, m \in 0..MonthOf(MaxClock) :
        Cardinality({r \in scans : r.tenant = t /\ r.month = m})
            <= MaxScansPerMonth(PlanOf(t))

\* C24 (as claimed): when the task has ended, by any path, no HTTP client
\* that a scanner's initialize opened for it is still open.
C24_ClientsClosed ==
    run.pc = "ended" => run.open = {}

\* C25 (as claimed): a scan that ended early, because the scanner could not
\* proceed or because it was cancelled, has every finding collected until then
\* persisted, is failed with an error message, and has the summary of exactly
\* those findings.
C25_PartialResultsKept ==
    (run.pc = "ended" /\ run.early # "" /\ ~run.faulted)
        => /\ run.stored = run.collected
           /\ run.row.status = "failed"
           /\ run.row.error_message # ""
           /\ run.row.findings_summary = CalculateSummary(run.collected)

C29_ResultsIsolated ==
    \A s \in ScanCalls :
        plugin.scan[s].pc = "returned"
            => /\ ResultFindings(s) = plugin.scan[s].own
               /\ plugin.scan[s].summary = CalculateSummary(Len(plugin.scan[s].own))

====
